---- MODULE Spec2Model ----
(***************************************************************************)
(* The persistent source library of the regulatory chat assistant:         *)
(* the Metadata Store (localStorage document), the Blob Store (IndexedDB   *)
(* object store 'files'), the startup reconciliation of App.tsx and the    *)
(* Library Manager handlers of App.tsx / KnowledgeBaseManager.             *)
(*                                                                         *)
(* One browsing context is modelled over several page loads (sessions).    *)
(* Every await of the code is a separate step; a Metadata Store save is    *)
(* the persist effect React runs after each committed change of urlGroups  *)
(* and is part of the step that changes urlGroups.                         *)
(***************************************************************************)
EXTENDS Integers, Sequences, FiniteSets, TLC

\* ------------------------------------------------------------------ bounds
MaxOps == 3        \* user actions (library panel, chat, page reload), over all sessions
MaxTurns == 1      \* chat turns per page load
maxItems == 2      \* capacity per group (prop maxItems; the app passes 50)

\* --------------------------------------------------------------- constants
NoValue == "undefined"     \* an absent optional field
NoDoc == <<>>              \* localStorage.getItem(STORAGE_KEY) === null
NoId == 0                  \* editingSourceId === null
NoSource == [id |-> NoId, type |-> "none", title |-> "", url |-> NoValue, mimeType |-> NoValue]
DefaultId == "default-library"
PdfType == "application/pdf"

NoTrip == [on |-> FALSE, id |-> NoId, groups |-> <<>>, blobs |-> {}, meta |-> <<>>]

INITIAL_URL_GROUPS ==
  << [id |-> DefaultId, name |-> "My Knowledge Library", sources |-> <<>>] >>

\* The files a user can pick, each given by the data URL FileReader yields.
Files ==
  { [name |-> "reg.pdf",   type |-> PdfType,      dataUrl |-> "data:application/pdf;base64,JVBE"],
    [name |-> "notes.txt", type |-> "text/plain", dataUrl |-> "data:text/plain;base64,aGk="] }

\* What a user can type into the URL field and into the rename field.
UrlInputs == { "https://a.eu/act", " ", "act.pdf" }
TitleInputs == { " Act ", "  ", "" }

\* What a user can type into the chat field, and what they can attach to a turn.
QueryInputs == { "Art. 5?", " " }
Memo == [name |-> "memo.pdf", mimeType |-> PdfType, data |-> "TUVNTw"]
AttachmentInputs == { <<>>, << Memo >> }

\* what the generation client answers
ResponseText == "## Answer"
ApologyText ==
  "Apologies, I encountered a diplomatic communication error. Please ensure your files are valid and try again."

\* the message the mount effect puts into the transcript
\* (message ids are numbers here; 'system-welcome' is the one id that is none)
WelcomeMessage ==
  [id |-> NoId, sender |-> "system", text |-> "Greetings.", isLoading |-> FALSE,
   attachments |-> <<>>]

\* getReq.result for a key the store does not hold
NoBlob == [id |-> NoId, name |-> "", mimeType |-> "", data |-> ""]


\* no handleSendMessage call is under way
IdleTurn ==
  [pc |-> "idle", query |-> "", temp |-> <<>>, sources |-> <<>>, k |-> 1, urls |-> <<>>,
   filesToSend |-> <<>>, looked |-> <<>>, placeholderMessageId |-> NoId, calls |-> 0]

\* ------------------------------------------------------------ text helpers
IsSpace(c) == c \in {" ", "\t", "\n"}

RECURSIVE TrimStart(_)
TrimStart(s) ==
  IF Len(s) = 0 THEN s
  ELSE IF IsSpace(SubSeq(s, 1, 1)) THEN TrimStart(SubSeq(s, 2, Len(s))) ELSE s

RECURSIVE TrimEnd(_)
TrimEnd(s) ==
  IF Len(s) = 0 THEN s
  ELSE IF IsSpace(SubSeq(s, Len(s), Len(s))) THEN TrimEnd(SubSeq(s, 1, Len(s) - 1)) ELSE s

\* String.prototype.trim
Trim(s) == TrimEnd(TrimStart(s))

SchemeChars ==
  { "a", "b", "c", "d", "e", "f", "g", "h", "i", "j", "k", "l", "m", "n", "o",
    "p", "q", "r", "s", "t", "u", "v", "w", "x", "y", "z" }

\* a check that accepts every string
isValidUrl_Always(urlString) == TRUE

\* new URL(s) without a base succeeds only for an absolute URL: after the
\* parser strips surrounding whitespace, a scheme followed by ':'.
isValidUrl(urlString) ==
  LET t == Trim(urlString) IN
    \E i \in 2..Len(t) :
      /\ SubSeq(t, i, i) = ":"
      /\ \A j \in 1..(i - 1) : SubSeq(t, j, j) \in SchemeChars

\* result.split(',')[1] of the data URL
fileToBase64(file) ==
  LET s == file.dataUrl
      commas == { i \in 1..Len(s) : SubSeq(s, i, i) = "," }
      first == CHOOSE i \in commas : \A j \in commas : i <= j
      rest == { i \in commas : i > first }
      stop == IF rest = {} THEN Len(s) + 1
              ELSE CHOOSE i \in rest : \A j \in rest : i <= j
  IN IF commas = {} THEN NoValue ELSE SubSeq(s, first + 1, stop - 1)

\* --------------------------------------------------------- group-list helpers
SourceIds(srcs) == { srcs[j].id : j \in DOMAIN srcs }
GroupIds(gs) == UNION { SourceIds(gs[i].sources) : i \in DOMAIN gs }

\* how many descriptors of the whole list carry this id
CountId(gs, x) ==
  Cardinality(UNION { { <<i, j>> : j \in { k \in DOMAIN gs[i].sources : gs[i].sources[k].id = x } } :
                      i \in DOMAIN gs })

\* urlGroups.find(g => g.sources.some(s => s.id === id))?.sources.find(...)
FindSource(gs, x) ==
  LET hits == { i \in DOMAIN gs : x \in SourceIds(gs[i].sources) } IN
    IF hits = {} THEN NoSource
    ELSE LET i == CHOOSE k \in hits : \A m \in hits : k <= m
             js == { j \in DOMAIN gs[i].sources : gs[i].sources[j].id = x }
             j == CHOOSE k \in js : \A m \in js : k <= m
         IN gs[i].sources[j]

\* urlGroups.find(g => g.id === activeUrlGroupId) || urlGroups[0]
ActiveIndex(gs, gid) ==
  LET hits == { i \in DOMAIN gs : gs[i].id = gid } IN
    IF hits = {} THEN 1 ELSE CHOOSE k \in hits : \A m \in hits : k <= m

ActiveSources(gs, gid) == gs[ActiveIndex(gs, gid)].sources

\* prevGroups.map(group => group.id === gid ? {...group, sources: [...sources, s]} : group)
AppendSource(gs, gid, s) ==
  [ i \in DOMAIN gs |->
      IF gs[i].id = gid THEN [gs[i] EXCEPT !.sources = Append(@, s)] ELSE gs[i] ]

\* a filter that keeps the source it should drop
FilterOut_Inverted(srcs, x) == SelectSeq(srcs, LAMBDA s : s.id = x)

FilterOut(srcs, x) == SelectSeq(srcs, LAMBDA s : s.id # x)

\* prevGroups.map(g => ({...g, sources: g.sources.filter(s => s.id !== sourceId)}))
RemoveSource(gs, x) ==
  [ i \in DOMAIN gs |-> [gs[i] EXCEPT !.sources = FilterOut(@, x)] ]

\* a rename that writes the new title into the url as well
RenameSource_AlsoUrl(gs, x, newTitle) ==
  [ i \in DOMAIN gs |->
      [gs[i] EXCEPT !.sources =
         [ j \in DOMAIN @ |->
             IF @[j].id = x THEN [@[j] EXCEPT !.title = newTitle, !.url = newTitle]
             ELSE @[j] ]] ]

\* sources.map(s => s.id === sourceId ? {...s, title: newTitle} : s) in every group
RenameSource(gs, x, newTitle) ==
  [ i \in DOMAIN gs |->
      [gs[i] EXCEPT !.sources =
         [ j \in DOMAIN @ |-> IF @[j].id = x THEN [@[j] EXCEPT !.title = newTitle] ELSE @[j] ]] ]

\* a capacity check that lets one source too many in
AtCapacity_OffByOne(sources) == Len(sources) > maxItems

\* sources.length >= maxItems
AtCapacity(sources) == Len(sources) >= maxItems

UrlDescriptor(x, url) ==
  [id |-> x, type |-> "url", title |-> url, url |-> url, mimeType |-> NoValue]

\* a file descriptor that also carries its name as url
FileDescriptor_WithUrl(x, name, mime) ==
  [id |-> x, type |-> "file", title |-> name, url |-> name, mimeType |-> mime]

FileDescriptor(x, name, mime) ==
  [id |-> x, type |-> "file", title |-> name, url |-> NoValue, mimeType |-> mime]

\* ----------------------------------------------------------- Metadata Store
DescriptorFields == { "id", "type", "title", "url", "mimeType" }
RequiredFields == { "id", "type", "title" }

\* JSON.stringify drops the fields whose value is undefined
StringifySource(s) ==
  [ f \in { g \in DescriptorFields : g \in RequiredFields \/ s[g] # NoValue } |-> s[f] ]

Stringify(gs) ==
  [ i \in DOMAIN gs |->
      [ id |-> gs[i].id, name |-> gs[i].name,
        sources |-> [ j \in DOMAIN gs[i].sources |-> StringifySource(gs[i].sources[j]) ] ] ]

\* reading a field the parsed object lacks gives undefined
ParseSource(d) ==
  [ f \in DescriptorFields |-> IF f \in DOMAIN d THEN d[f] ELSE NoValue ]

Parse(doc) ==
  [ i \in DOMAIN doc |->
      [ id |-> doc[i].id, name |-> doc[i].name,
        sources |-> [ j \in DOMAIN doc[i].sources |-> ParseSource(doc[i].sources[j]) ] ] ]

\* --------------------------------------------------------------- Blob Store
BlobIds(bs) == { b.id : b \in bs }

\* store.getAll(): every record, in key order
RECURSIVE getAllFilesFromDB(_)
getAllFilesFromDB(bs) ==
  IF bs = {} THEN <<>>
  ELSE LET b == CHOOSE c \in bs : \A d \in bs : c.id <= d.id
       IN <<b>> \o getAllFilesFromDB(bs \ {b})

\* store.put(file): upsert by key
PutBlob(bs, b) == { c \in bs : c.id # b.id } \cup {b}

\* a delete that leaves the record in the store
DeleteBlob_Noop(bs, x) == bs

\* store.delete(id): deleting an absent key succeeds
DeleteBlob(bs, x) == { c \in bs : c.id # x }

\* --------------------------------------------------------------- Reconciler
\* newGroups.find(g => g.id === 'default-library') || newGroups[0]
DefaultIndex(gs) == ActiveIndex(gs, DefaultId)

\* a lookup that finds no record's descriptor
IsKnown_Never(gs, x) == FALSE

\* newGroups.some(g => g.sources.some(s => s.id === file.id))
IsKnown(gs, x) == x \in GroupIds(gs)

\* a synthesized descriptor titled with the MIME type
PushOrphan_TitleFromMime(gs, file) ==
  [gs EXCEPT ![DefaultIndex(gs)].sources =
     Append(@, FileDescriptor(file.id, file.mimeType, file.mimeType))]

\* defaultGroup.sources.push({id, type: 'file', title: file.name, mimeType})
PushOrphan(gs, file) ==
  [gs EXCEPT ![DefaultIndex(gs)].sources =
     Append(@, FileDescriptor(file.id, file.name, file.mimeType))]

\* dbFiles.forEach(file => { if (!isKnown) defaultGroup.sources.push(...) })
RECURSIVE Reconcile(_, _)
Reconcile(gs, dbFiles) ==
  IF dbFiles = <<>> THEN gs
  ELSE LET file == Head(dbFiles) IN
       Reconcile(IF IsKnown(gs, file.id) THEN gs ELSE PushOrphan(gs, file), Tail(dbFiles))

\* ------------------------------------------------------------------- state
VARIABLES
  meta,              \* Metadata Store: the document under STORAGE_KEY, or NoDoc
  blobs,             \* Blob Store: the records of object store 'files'
  urlGroups,         \* React state urlGroups
  activeUrlGroupId,  \* React state activeUrlGroupId
  initPc,            \* where initializeData is
  groups,            \* local variable groups of initializeData
  adds,              \* handleAddPersistentFile calls that are awaiting
  removes,           \* handleRemoveSource calls awaiting deleteFileFromDB
  error,             \* KnowledgeBaseManager state error
  editingSourceId,   \* KnowledgeBaseManager state editingSourceId
  nextId,            \* the next identifier Date.now()/Math.random() yields
  ops,               \* user actions so far
  session,           \* number of the page load
  track,             \* this session so far: "clean", "savefail" (a save threw, no
                     \* operation yet) or "touched" (a Library Manager operation ran)
  prevMeta,          \* the document the previous session left
  prevRun,           \* the list the previous session's reconciliation committed
  last,              \* the step taken last
  roundTrip,         \* the stores as they were when the file add under way began,
                     \* while only that add and the removal of its source have run
  chatMessages,      \* React state chatMessages
  isLoading,         \* React state isLoading
  turn,              \* the handleSendMessage call under way, or IdleTurn
  dateNow,           \* Date.now()
  removed            \* the ids of the files whose handleRemoveSource call has ended

vars == << meta, blobs, urlGroups, activeUrlGroupId, initPc, groups, adds, removes,
           error, editingSourceId, nextId, ops, session, track, prevMeta, prevRun, last,
           roundTrip, chatMessages, isLoading, turn, dateNow, removed >>

sessionVars == << session, prevMeta, prevRun, removed >>

chatVars == << chatMessages, isLoading, turn, dateNow >>

Init ==
  /\ meta = NoDoc
  /\ blobs = {}
  /\ urlGroups = INITIAL_URL_GROUPS
  /\ activeUrlGroupId = DefaultId
  /\ initPc = "boot"
  /\ groups = INITIAL_URL_GROUPS
  /\ adds = <<>>
  /\ removes = <<>>
  /\ error = NoValue
  /\ editingSourceId = NoId
  /\ nextId = 1
  /\ ops = 0
  /\ session = 1
  /\ track = "clean"
  /\ prevMeta = NoDoc
  /\ prevRun = NoDoc
  /\ last = "load"
  /\ roundTrip = NoTrip
  /\ chatMessages = <<>>
  /\ isLoading = FALSE
  /\ turn = IdleTurn
  /\ dateNow = 1
  /\ removed = {}

\* a save that writes the list as it was before the change
Persist_Stale(gs, ok, op) ==
  /\ meta' = IF ok THEN Stringify(urlGroups) ELSE meta
  /\ track' = IF op \/ track = "touched" THEN "touched"
              ELSE IF ok THEN track ELSE "savefail"

\* The persist effect: localStorage.setItem(STORAGE_KEY, JSON.stringify(urlGroups))
\* inside try/catch; ok = FALSE is setItem throwing.
\* op: the change being saved was made by a Library Manager operation.
Persist(gs, ok, op) ==
  /\ meta' = IF ok THEN Stringify(gs) ELSE meta
  /\ track' = IF op \/ track = "touched" THEN "touched"
              ELSE IF ok THEN track ELSE "savefail"

Mounted == initPc # "boot"

\* startup is over and no handler is awaiting: the next call runs alone
Quiet ==
  /\ initPc \in { "ready", "failed", "hung" }
  /\ adds = <<>>
  /\ removes = <<>>
  /\ meta = Stringify(urlGroups)

TripKept == roundTrip' = roundTrip
TripOver == roundTrip' = NoTrip

\* a user action on the rendered page, within the bound
UserAction ==
  /\ Mounted
  /\ ops < MaxOps
  /\ ops' = ops + 1

RemoveAt(seq, i) == SubSeq(seq, 1, i - 1) \o SubSeq(seq, i + 1, Len(seq))

\* ----------------------------------------------------------------- startup
\* First render: both mount effects run in order. initializeData() runs up
\* to its first await (initDB), then the persist effect saves the initial
\* urlGroups.
Mount(ok) ==
  /\ initPc = "boot"
  /\ initPc' = "opening"
  /\ Persist(urlGroups, ok, FALSE)
  /\ chatMessages' = << WelcomeMessage >>
  /\ last' = "mount"
  /\ TripOver
  /\ UNCHANGED << blobs, urlGroups, activeUrlGroupId, groups, adds, removes, error,
                  editingSourceId, nextId, ops, sessionVars, isLoading, turn, dateNow >>

\* initDB settles. On success the document is read and getAllFilesFromDB is
\* awaited; on failure the catch block ends initializeData.
InitDBDone(ok) ==
  /\ initPc = "opening"
  /\ IF ok
       THEN /\ groups' = IF meta # NoDoc THEN Parse(meta) ELSE INITIAL_URL_GROUPS
            /\ initPc' = "reading"
       ELSE /\ groups' = groups
            /\ initPc' = "failed"
  /\ last' = "initDB"
  /\ TripOver
  /\ UNCHANGED << meta, blobs, urlGroups, activeUrlGroupId, adds, removes, error,
                  editingSourceId, nextId, ops, track, sessionVars, chatVars >>

\* events delivered in any order
NoneUndelivered_AnyOrder == TRUE

\* IndexedDB delivers its events in the order the transactions finished: a
\* transaction that has committed has its completion handled before a later
\* read's result is.
NoneUndelivered ==
  /\ \A i \in DOMAIN adds : adds[i].pc # "stored"
  /\ \A i \in DOMAIN removes : removes[i].pc # "deleted"

\* getAllFilesFromDB settles: "ok" resolves with the records and the updater
\* of setUrlGroups commits the reconciled list (the persist effect follows);
\* "error" rejects (getAll.onerror); "hang" is the open request failing, for
\* which the promise has no handler and never settles.
GetAllDone(outcome, ok) ==
  /\ initPc = "reading"
  /\ NoneUndelivered
  /\ CASE outcome = "ok" ->
            /\ urlGroups' = Reconcile(groups, getAllFilesFromDB(blobs))
            /\ Persist(urlGroups', ok, FALSE)
            /\ initPc' = "ready"
       [] outcome = "error" ->
            /\ ok
            /\ initPc' = "failed"
            /\ UNCHANGED << urlGroups, meta, track >>
       [] outcome = "hang" ->
            /\ ok
            /\ initPc' = "hung"
            /\ UNCHANGED << urlGroups, meta, track >>
  /\ groups' = INITIAL_URL_GROUPS
  /\ last' = "getAll"
  /\ TripOver
  /\ UNCHANGED << blobs, activeUrlGroupId, adds, removes, error,
                  editingSourceId, nextId, ops, sessionVars, chatVars >>

\* ----------------------------------------------------------- Library Manager
\* KnowledgeBaseManager.handleAddUrl, then App.handleAddSource
handleAddUrl(currentUrlInput, ok) ==
  /\ UserAction
  /\ LET sources == ActiveSources(urlGroups, activeUrlGroupId) IN
     IF Trim(currentUrlInput) = ""
       THEN /\ ok
            /\ error' = "URL cannot be empty."
            /\ UNCHANGED << meta, urlGroups, nextId, track >>
     ELSE IF ~isValidUrl(currentUrlInput)
       THEN /\ ok
            /\ error' = "Invalid URL format. Please include http:// or https://"
            /\ UNCHANGED << meta, urlGroups, nextId, track >>
     ELSE IF AtCapacity(sources)
       THEN /\ ok
            /\ error' = "Maximum limit reached."
            /\ UNCHANGED << meta, urlGroups, nextId, track >>
     ELSE /\ urlGroups' = AppendSource(urlGroups, activeUrlGroupId,
                                       UrlDescriptor(nextId, currentUrlInput))
          /\ Persist(urlGroups', ok, TRUE)
          /\ nextId' = nextId + 1
          /\ error' = NoValue
  /\ last' = "addUrl"
  /\ TripOver
  /\ UNCHANGED << blobs, activeUrlGroupId, initPc, groups, adds, removes,
                  editingSourceId, sessionVars, chatVars >>

\* KnowledgeBaseManager.handleFileSelect, then App.handleAddPersistentFile up
\* to its first await (fileToBase64). The handler closes over the
\* activeUrlGroupId of the render it was created in.
handleFileSelect(file) ==
  /\ UserAction
  /\ LET sources == ActiveSources(urlGroups, activeUrlGroupId) IN
     IF file.type # PdfType
       THEN /\ error' = "Only PDF files are currently supported for the library."
            /\ UNCHANGED << adds, track >>
     ELSE IF AtCapacity(sources)
       THEN /\ error' = "Maximum limit reached."
            /\ UNCHANGED << adds, track >>
     ELSE /\ adds' = Append(adds, [pc |-> "reading", gid |-> activeUrlGroupId, file |-> file,
                                   id |-> NoId, data |-> NoValue])
          /\ track' = "touched"
          /\ error' = NoValue
  /\ last' = "addFile"
  /\ roundTrip' = IF Quiet /\ Len(adds') = 1
                    THEN [on |-> TRUE, id |-> NoId, groups |-> urlGroups,
                          blobs |-> blobs, meta |-> meta]
                    ELSE NoTrip
  /\ UNCHANGED << meta, blobs, urlGroups, activeUrlGroupId, initPc, groups, removes,
                  editingSourceId, nextId, sessionVars, chatVars >>

\* fileToBase64 settles: on success the id is generated and saveFileToDB is
\* awaited; on reader.onerror the catch block alerts and the call ends.
ReadDone(i, ok) ==
  /\ i \in DOMAIN adds
  /\ adds[i].pc = "reading"
  /\ IF ok
       THEN /\ adds' = [adds EXCEPT ![i].pc = "putting", ![i].id = nextId,
                                    ![i].data = fileToBase64(adds[i].file)]
            /\ nextId' = nextId + 1
            /\ last' = "read"
       ELSE /\ adds' = RemoveAt(adds, i)
            /\ nextId' = nextId
            /\ last' = "readFailed"
  /\ roundTrip' = IF ok /\ roundTrip.on THEN [roundTrip EXCEPT !.id = nextId] ELSE NoTrip
  /\ UNCHANGED << meta, blobs, urlGroups, activeUrlGroupId, initPc, groups, removes,
                  error, editingSourceId, ops, track, sessionVars, chatVars >>

StoredFile(op) ==
  [id |-> op.id, name |-> op.file.name, mimeType |-> op.file.type, data |-> op.data]

\* saveFileToDB: the readwrite transaction commits, the record is stored
PutCommit(i) ==
  /\ i \in DOMAIN adds
  /\ adds[i].pc = "putting"
  /\ blobs' = PutBlob(blobs, StoredFile(adds[i]))
  /\ adds' = [adds EXCEPT ![i].pc = "stored"]
  /\ last' = "putCommit"
  /\ TripKept
  /\ UNCHANGED << meta, urlGroups, activeUrlGroupId, initPc, groups, removes, error,
                  editingSourceId, nextId, ops, track, sessionVars, chatVars >>

\* tx.oncomplete resolves saveFileToDB: the descriptor is appended and the
\* persist effect runs.
PutResolve(i, ok) ==
  /\ i \in DOMAIN adds
  /\ adds[i].pc = "stored"
  /\ urlGroups' = AppendSource(urlGroups, adds[i].gid,
                    FileDescriptor(adds[i].id, adds[i].file.name, adds[i].file.type))
  /\ Persist(urlGroups', ok, TRUE)
  /\ adds' = RemoveAt(adds, i)
  /\ last' = "putDone"
  /\ roundTrip' = IF ok THEN roundTrip ELSE NoTrip
  /\ UNCHANGED << blobs, activeUrlGroupId, initPc, groups, removes, error,
                  editingSourceId, nextId, ops, sessionVars, chatVars >>

\* a failed put after which the descriptor is appended all the same
PutFail_AddsAnyway(i, outcome) ==
  /\ i \in DOMAIN adds
  /\ adds[i].pc = "putting"
  /\ outcome \in { "error", "hang" }
  /\ urlGroups' = AppendSource(urlGroups, adds[i].gid,
                    FileDescriptor(adds[i].id, adds[i].file.name, adds[i].file.type))
  /\ Persist(urlGroups', TRUE, TRUE)
  /\ adds' = RemoveAt(adds, i)
  /\ last' = IF outcome = "error" THEN "putFailed" ELSE "putHung"
  /\ TripOver
  /\ UNCHANGED << blobs, activeUrlGroupId, initPc, groups, removes, error,
                  editingSourceId, nextId, ops, sessionVars, chatVars >>

\* saveFileToDB does not store the record. "error": a request error reaches
\* tx.onerror, the promise rejects and the catch block alerts. "hang": the
\* open request fails or the transaction aborts without an error event; no
\* handler settles the promise and the call never resumes.
PutFail(i, outcome) ==
  /\ i \in DOMAIN adds
  /\ adds[i].pc = "putting"
  /\ outcome \in { "error", "hang" }
  /\ adds' = RemoveAt(adds, i)
  /\ last' = IF outcome = "error" THEN "putFailed" ELSE "putHung"
  /\ TripOver
  /\ UNCHANGED << meta, blobs, urlGroups, activeUrlGroupId, initPc, groups, removes, error,
                  editingSourceId, nextId, ops, track, sessionVars, chatVars >>

\* a removal that drops the descriptor before the delete is issued
handleRemoveSource_FilterFirst(sourceId, ok) ==
  /\ UserAction
  /\ sourceId \in 1..(nextId - 1)
  /\ urlGroups' = RemoveSource(urlGroups, sourceId)
  /\ Persist(urlGroups', ok, TRUE)
  /\ removes' = IF FindSource(urlGroups, sourceId).type = "file"
                  THEN Append(removes, [pc |-> "deleting", id |-> sourceId])
                  ELSE removes
  /\ last' = "remove"
  /\ TripOver
  /\ UNCHANGED << blobs, activeUrlGroupId, initPc, groups, adds, error, editingSourceId,
                  nextId, sessionVars, chatVars >>

\* App.handleRemoveSource up to its first await: a file descriptor found in
\* urlGroups makes it await deleteFileFromDB; otherwise the descriptor is
\* filtered out at once.
handleRemoveSource(sourceId, ok) ==
  /\ UserAction
  /\ sourceId \in 1..(nextId - 1)
  /\ IF FindSource(urlGroups, sourceId).type = "file"
       THEN /\ ok
            /\ removes' = Append(removes, [pc |-> "deleting", id |-> sourceId])
            /\ track' = "touched"
            /\ UNCHANGED << meta, urlGroups >>
       ELSE /\ urlGroups' = RemoveSource(urlGroups, sourceId)
            /\ Persist(urlGroups', ok, TRUE)
            /\ removes' = removes
  /\ last' = "remove"
  /\ roundTrip' = IF roundTrip.on /\ sourceId = roundTrip.id /\ adds = <<>> /\ Len(removes') = 1
                    THEN roundTrip ELSE NoTrip
  /\ UNCHANGED << blobs, activeUrlGroupId, initPc, groups, adds, error, editingSourceId,
                  nextId, sessionVars, chatVars >>

\* deleteFileFromDB: the readwrite transaction commits, the record is gone
DeleteCommit(i) ==
  /\ i \in DOMAIN removes
  /\ removes[i].pc = "deleting"
  /\ blobs' = DeleteBlob(blobs, removes[i].id)
  /\ removes' = [removes EXCEPT ![i].pc = "deleted"]
  /\ last' = "deleteCommit"
  /\ TripKept
  /\ UNCHANGED << meta, urlGroups, activeUrlGroupId, initPc, groups, adds, error,
                  editingSourceId, nextId, ops, track, sessionVars, chatVars >>

\* the rest of handleRemoveSource: the descriptor is filtered out of every
\* group and the persist effect runs
FinishRemove(i, ok) ==
  /\ urlGroups' = RemoveSource(urlGroups, removes[i].id)
  /\ Persist(urlGroups', ok, TRUE)
  /\ removes' = RemoveAt(removes, i)

\* tx.oncomplete resolves deleteFileFromDB
DeleteResolve(i, ok) ==
  /\ i \in DOMAIN removes
  /\ removes[i].pc = "deleted"
  /\ FinishRemove(i, ok)
  /\ removed' = removed \cup { removes[i].id }
  /\ last' = "deleteDone"
  /\ TripOver
  /\ UNCHANGED << blobs, activeUrlGroupId, initPc, groups, adds, error,
                  editingSourceId, nextId, ops, session, prevMeta, prevRun, chatVars >>

\* deleteFileFromDB does not delete the record. "error": a request error
\* reaches tx.onerror, the promise rejects, the catch block logs and the
\* handler goes on. "hang": the open request fails or the transaction aborts
\* without an error event; no handler settles the promise and
\* handleRemoveSource stays at its await for ever.
DeleteFail(i, outcome, ok) ==
  /\ i \in DOMAIN removes
  /\ removes[i].pc = "deleting"
  /\ CASE outcome = "error" ->
            /\ FinishRemove(i, ok)
            /\ removed' = removed \cup { removes[i].id }
            /\ last' = "deleteFailed"
       [] outcome = "hang" ->
            /\ ok
            /\ removes' = RemoveAt(removes, i)
            /\ last' = "deleteHung"
            /\ UNCHANGED << meta, urlGroups, track, removed >>
  /\ TripOver
  /\ UNCHANGED << blobs, activeUrlGroupId, initPc, groups, adds, error,
                  editingSourceId, nextId, ops, session, prevMeta, prevRun, chatVars >>

\* KnowledgeBaseManager.startEditing on a listed source
startEditing(sourceId) ==
  /\ UserAction
  /\ sourceId \in SourceIds(ActiveSources(urlGroups, activeUrlGroupId))
  /\ editingSourceId' = sourceId
  /\ last' = "startEditing"
  /\ TripOver
  /\ UNCHANGED << meta, blobs, urlGroups, activeUrlGroupId, initPc, groups, adds, removes,
                  error, nextId, track, sessionVars, chatVars >>

\* KnowledgeBaseManager.cancelEditing
cancelEditing ==
  /\ UserAction
  /\ editingSourceId # NoId
  /\ editingSourceId' = NoId
  /\ last' = "cancelEditing"
  /\ TripOver
  /\ UNCHANGED << meta, blobs, urlGroups, activeUrlGroupId, initPc, groups, adds, removes,
                  error, nextId, track, sessionVars, chatVars >>

\* KnowledgeBaseManager.saveEditing, then App.handleRenameSource. The edit
\* field is rendered only for a listed source.
saveEditing(editTitleInput, ok) ==
  /\ UserAction
  /\ editingSourceId \in SourceIds(ActiveSources(urlGroups, activeUrlGroupId))
  /\ IF Trim(editTitleInput) # ""
       THEN /\ urlGroups' = RenameSource(urlGroups, editingSourceId, Trim(editTitleInput))
            /\ Persist(urlGroups', ok, TRUE)
            /\ editingSourceId' = NoId
       ELSE /\ ok
            /\ UNCHANGED << meta, urlGroups, editingSourceId, track >>
  /\ last' = "saveEditing"
  /\ TripOver
  /\ UNCHANGED << blobs, activeUrlGroupId, initPc, groups, adds, removes, error,
                  nextId, sessionVars, chatVars >>

\* a selection that also empties the selected group
setActiveUrlGroupId_Clears(gid) ==
  /\ UserAction
  /\ gid \in { urlGroups[i].id : i \in DOMAIN urlGroups }
  /\ activeUrlGroupId' = gid
  /\ urlGroups' = [ i \in DOMAIN urlGroups |->
                      IF urlGroups[i].id = gid THEN [urlGroups[i] EXCEPT !.sources = <<>>]
                      ELSE urlGroups[i] ]
  /\ Persist(urlGroups', TRUE, TRUE)
  /\ last' = "setActive"
  /\ TripOver
  /\ UNCHANGED << blobs, initPc, groups, adds, removes, error,
                  editingSourceId, nextId, sessionVars, chatVars >>

\* the group select: onSetGroupId(e.target.value)
setActiveUrlGroupId(gid) ==
  /\ UserAction
  /\ gid \in { urlGroups[i].id : i \in DOMAIN urlGroups }
  /\ activeUrlGroupId' = gid
  /\ last' = "setActive"
  /\ TripOver
  /\ UNCHANGED << meta, blobs, urlGroups, initPc, groups, adds, removes, error,
                  editingSourceId, nextId, track, sessionVars, chatVars >>

\* ---------------------------------------------------------------- chat turn
\* The synchronous part of the loop "for (const source of activeSources)"
\* from index k on: urls are pushed until a file descriptor makes it await.
RECURSIVE Gather(_, _, _)
Gather(srcs, k, urls) ==
  IF k > Len(srcs) THEN [k |-> k, urls |-> urls]
  ELSE IF srcs[k].type = "url" /\ srcs[k].url \notin { NoValue, "" }
    THEN Gather(srcs, k + 1, Append(urls, srcs[k].url))
  ELSE IF srcs[k].type = "file" THEN [k |-> k, urls |-> urls]
  ELSE Gather(srcs, k + 1, urls)

\* an attachment built from the descriptor alone, which holds no data
Attachment_FromDescriptor(source, dbFile) ==
  [name |-> source.title, mimeType |-> source.mimeType, data |-> NoValue]

\* filesToSend.push({name: source.title, mimeType: dbFile.mimeType, data: dbFile.data})
Attachment(source, dbFile) ==
  [name |-> source.title, mimeType |-> dbFile.mimeType, data |-> dbFile.data]

\* a resolution that sets the text and leaves the message loading
ResolvePlaceholder_KeepsLoading(msgs, placeholderMessageId, text) ==
  [ j \in DOMAIN msgs |->
      IF msgs[j].id = placeholderMessageId
        THEN [msgs[j] EXCEPT !.text = text]
        ELSE msgs[j] ]

\* prev.map(msg => msg.id === placeholderMessageId ? {...msg, text, isLoading: false} : msg)
ResolvePlaceholder(msgs, placeholderMessageId, text) ==
  [ j \in DOMAIN msgs |->
      IF msgs[j].id = placeholderMessageId
        THEN [msgs[j] EXCEPT !.text = text, !.isLoading = FALSE]
        ELSE msgs[j] ]

\* Date.now() when the messages of a turn are created. The send button is
\* disabled while a turn is under way, so the messages of two turns are
\* created more than a millisecond apart; the two readings within one turn
\* are taken in the same millisecond.
Later(n) == n + 2

\* The loop is over: the user message and the placeholder are appended and
\* generateContentWithUrlContext(query, urls, filesToSend) is called.
CallGeneration(t) ==
  /\ dateNow' = Later(dateNow)
  /\ chatMessages' = chatMessages \o
       << [id |-> dateNow', sender |-> "user", text |-> t.query, isLoading |-> FALSE,
           attachments |-> t.temp],
          [id |-> dateNow' + 1, sender |-> "model", text |-> "", isLoading |-> TRUE,
           attachments |-> <<>>] >>
  /\ turn' = [t EXCEPT !.pc = "generating", !.placeholderMessageId = dateNow' + 1,
                       !.calls = @ + 1]

\* a loop that does not await the lookups: the call is made with what has
\* been gathered when the first file descriptor is met
Continue_NoAwait(t, k) ==
  LET g == Gather(t.sources, k, t.urls)
  IN CallGeneration([t EXCEPT !.k = g.k, !.urls = g.urls])

\* The loop goes on from index k: to the next lookup, or to the call.
Continue(t, k) ==
  LET g == Gather(t.sources, k, t.urls)
      t1 == [t EXCEPT !.k = g.k, !.urls = g.urls]
  IN IF g.k > Len(t.sources)
       THEN CallGeneration(t1)
       ELSE /\ turn' = [t1 EXCEPT !.pc = "assembling"]
            /\ UNCHANGED << chatMessages, dateNow >>

\* the chat turns begun since the page was loaded
TurnsBegun ==
  Cardinality({ j \in DOMAIN chatMessages : chatMessages[j].sender = "user" })
    + (IF turn.pc \in { "assembling", "hung" } THEN 1 ELSE 0)

\* ChatInterface.handleSend, then App.handleSendMessage up to its first await
handleSend(userQuery, attachments) ==
  /\ UserAction
  /\ TurnsBegun < MaxTurns
  /\ Trim(userQuery) # "" \/ Len(attachments) > 0
  /\ ~isLoading
  /\ isLoading' = TRUE
  /\ Continue([IdleTurn EXCEPT !.query = Trim(userQuery), !.temp = attachments,
                               !.sources = ActiveSources(urlGroups, activeUrlGroupId),
                               !.filesToSend = attachments],
              1)
  /\ last' = "send"
  /\ TripOver
  /\ UNCHANGED << meta, blobs, urlGroups, activeUrlGroupId, initPc, groups, adds, removes,
                  error, editingSourceId, nextId, track, sessionVars >>

\* getFileFromDB(source.id) settles, or does not. "ok": getReq.onsuccess
\* resolves with the record or with undefined; "error": getReq.onerror
\* rejects and the catch block logs; "hang": the open request fails, no
\* handler settles the promise and handleSendMessage stays at its await.
GetDone(outcome) ==
  /\ turn.pc = "assembling"
  /\ LET source == turn.sources[turn.k]
         hits == { b \in blobs : b.id = source.id }
         dbFile == IF hits = {} THEN NoBlob ELSE CHOOSE b \in hits : TRUE
     IN CASE outcome = "ok" ->
               /\ Continue([turn EXCEPT
                              !.filesToSend = IF hits # {} THEN Append(@, Attachment(source, dbFile))
                                              ELSE @,
                              !.looked = Append(@, [id |-> source.id, res |-> "ok",
                                                    dbFile |-> dbFile])],
                           turn.k + 1)
               /\ last' = "get"
          [] outcome = "error" ->
               /\ Continue([turn EXCEPT
                              !.looked = Append(@, [id |-> source.id, res |-> "error",
                                                    dbFile |-> NoBlob])],
                           turn.k + 1)
               /\ last' = "getFailed"
          [] outcome = "hang" ->
               /\ turn' = [turn EXCEPT !.pc = "hung"]
               /\ last' = "getHung"
               /\ UNCHANGED << chatMessages, dateNow >>
  /\ TripOver
  /\ UNCHANGED << meta, blobs, urlGroups, activeUrlGroupId, initPc, groups, adds, removes,
                  error, editingSourceId, nextId, ops, track, sessionVars, isLoading >>

\* generateContentWithUrlContext settles: the placeholder gets the answer,
\* or in the catch block the apology; finally the loading flag is cleared.
GenDone(ok) ==
  /\ turn.pc = "generating"
  /\ chatMessages' = ResolvePlaceholder(chatMessages, turn.placeholderMessageId,
                                        IF ok THEN ResponseText ELSE ApologyText)
  /\ isLoading' = FALSE
  /\ turn' = IdleTurn
  /\ last' = IF ok THEN "generated" ELSE "generationFailed"
  /\ TripOver
  /\ UNCHANGED << meta, blobs, urlGroups, activeUrlGroupId, initPc, groups, adds, removes,
                  error, editingSourceId, nextId, ops, track, sessionVars, dateNow >>

\* ------------------------------------------------------------------ reload
\* The page is reloaded: every awaiting handler is dropped with the page, the
\* two stores survive, React and component state are constructed anew.
Reload ==
  /\ UserAction
  /\ urlGroups' = INITIAL_URL_GROUPS
  /\ activeUrlGroupId' = DefaultId
  /\ initPc' = "boot"
  /\ groups' = INITIAL_URL_GROUPS
  /\ adds' = <<>>
  /\ removes' = <<>>
  /\ error' = NoValue
  /\ editingSourceId' = NoId
  /\ session' = session + 1
  /\ track' = "clean"
  /\ prevMeta' = meta
  /\ prevRun' = IF initPc = "ready" /\ track = "clean" THEN urlGroups ELSE NoDoc
  /\ chatMessages' = <<>>
  /\ isLoading' = FALSE
  /\ turn' = IdleTurn
  /\ last' = "load"
  /\ TripOver
  /\ UNCHANGED << meta, blobs, nextId, dateNow, removed >>

Next ==
  \/ \E ok \in BOOLEAN : Mount(ok)
  \/ \E ok \in BOOLEAN : InitDBDone(ok)
  \/ \E o \in { "ok", "error", "hang" }, ok \in BOOLEAN : GetAllDone(o, ok)
  \/ \E u \in UrlInputs, ok \in BOOLEAN : handleAddUrl(u, ok)
  \/ \E f \in Files : handleFileSelect(f)
  \/ \E i \in 1..MaxOps, ok \in BOOLEAN : ReadDone(i, ok)
  \/ \E i \in 1..MaxOps : PutCommit(i)
  \/ \E i \in 1..MaxOps, ok \in BOOLEAN : PutResolve(i, ok)
  \/ \E i \in 1..MaxOps, o \in { "error", "hang" } : PutFail(i, o)
  \/ \E x \in 1..MaxOps, ok \in BOOLEAN : handleRemoveSource(x, ok)
  \/ \E i \in 1..MaxOps : DeleteCommit(i)
  \/ \E i \in 1..MaxOps, ok \in BOOLEAN : DeleteResolve(i, ok)
  \/ \E i \in 1..MaxOps, o \in { "error", "hang" }, ok \in BOOLEAN : DeleteFail(i, o, ok)
  \/ \E x \in 1..MaxOps : startEditing(x)
  \/ cancelEditing
  \/ \E t \in TitleInputs, ok \in BOOLEAN : saveEditing(t, ok)
  \/ \E g \in { DefaultId } : setActiveUrlGroupId(g)
  \/ \E q \in QueryInputs, a \in AttachmentInputs : handleSend(q, a)
  \/ \E o \in { "ok", "error", "hang" } : GetDone(o)
  \/ \E ok \in BOOLEAN : GenDone(ok)
  \/ Reload

Spec == Init /\ [][Next]_vars

\* ------------------------------------------------------- reading the state
\* the descriptors of a group list, each with the id of its group
Entries(gs) ==
  UNION { { << gs[i].id, gs[i].sources[j] >> : j \in DOMAIN gs[i].sources } : i \in DOMAIN gs }

\* the index of the group orphans go to: 'default-library', else the first
DefaultOf(gs) ==
  IF \E i \in DOMAIN gs : gs[i].id = "default-library"
    THEN CHOOSE i \in DOMAIN gs : gs[i].id = "default-library" /\
                                   \A k \in 1..(i - 1) : gs[k].id # "default-library"
    ELSE 1

\* the step in which the Reconciler commits
ReconcilerCommits == initPc = "reading" /\ initPc' = "ready"

\* ------------------------------------------------------------------ claims
\* C1: durability across sessions. Once startup has finished in a session in
\* which no Library Manager operation has run, every descriptor of the
\* document the previous session left is in the in-memory group list and in
\* the Metadata Store, in the same group and with the same fields.
C1_PersistedDescriptorsSurviveStartup ==
  (session > 1 /\ initPc = "ready" /\ track = "clean")
    => /\ Entries(Parse(prevMeta)) \subseteq Entries(urlGroups)
       /\ Entries(Parse(prevMeta)) \subseteq Entries(Parse(meta))

\* C2: orphan repair. In the step in which the Reconciler commits, every
\* record of the Blob Store has exactly one descriptor in the committed list;
\* the records whose id was in no loaded group have each one descriptor
\* {id, type file, title = name, mimeType} appended to the default group,
\* after the loaded descriptors, which keep their place; nothing else changes.
C2_OrphanRepair ==
  [][ ReconcilerCommits =>
        LET d == DefaultOf(groups)
            orphans == { b \in blobs : b.id \notin GroupIds(groups) }
            was == groups[d].sources
            now == urlGroups'[d].sources
        IN /\ \A b \in blobs : CountId(urlGroups', b.id) = 1
           /\ DOMAIN urlGroups' = DOMAIN groups
           /\ \A i \in DOMAIN groups : i # d => urlGroups'[i] = groups[i]
           /\ urlGroups'[d].id = groups[d].id
           /\ Len(now) = Len(was) + Cardinality(orphans)
           /\ SubSeq(now, 1, Len(was)) = was
           /\ { now[j] : j \in (Len(was) + 1)..Len(now) }
                = { [id |-> b.id, type |-> "file", title |-> b.name,
                     url |-> NoValue, mimeType |-> b.mimeType] : b \in orphans }
    ]_vars

\* C2 witness: the Reconciler has just committed a descriptor for a record
\* that the document of the previous session did not name.
C2_Witness ==
  /\ last = "getAll"
  /\ initPc = "ready"
  /\ \E b \in blobs :
       /\ b.id \notin GroupIds(Parse(prevMeta))
       /\ << DefaultId, [id |-> b.id, type |-> "file", title |-> b.name,
                         url |-> NoValue, mimeType |-> b.mimeType] >> \in Entries(urlGroups)

C4_AddFileOnlyOnBlobSuccess ==
  /\ [][ \A i \in 1..MaxOps :
           /\ (ReadDone(i, FALSE) \/ PutFail(i, "error") \/ PutFail(i, "hang"))
                => /\ urlGroups' = urlGroups
                   /\ meta' = meta
                   /\ blobs' = blobs
           /\ \A ok \in BOOLEAN : PutResolve(i, ok)
                => /\ CountId(urlGroups', adds[i].id) = 1
                   /\ FindSource(urlGroups', adds[i].id).type = "file"
                   /\ adds[i].id \in BlobIds(blobs') ]_vars
  /\ [](\A i \in DOMAIN adds :
          adds[i].pc \in { "reading", "putting" }
            => /\ adds[i].id \notin GroupIds(urlGroups)
               /\ adds[i].id \notin GroupIds(Parse(meta))
               /\ adds[i].id \notin BlobIds(blobs))

\* C4 witness: the put of the only add so far has failed, and there is no
\* descriptor and no record.
C4_Witness ==
  /\ last \in { "putFailed", "putHung" }
  /\ nextId = 2
  /\ GroupIds(urlGroups) = {}
  /\ blobs = {}

\* C5: ordering inside one operation. Outside the Reconciler's commit and a
\* reload: a file descriptor enters the group list only when the record with
\* its id is already in the Blob Store; the document gets the id of an add
\* under way only when that record is already stored; and a file descriptor
\* leaves the group list only in the step in which its delete fails or after
\* its delete has committed.
C5_BlobBeforeDescriptor ==
  [][ (~ReconcilerCommits /\ last' # "load") =>
        /\ \A x \in GroupIds(urlGroups') \ GroupIds(urlGroups) :
             FindSource(urlGroups', x).type = "file" => x \in BlobIds(blobs)
        /\ \A i \in DOMAIN adds :
             (adds[i].id \in GroupIds(Parse(meta')) \ GroupIds(Parse(meta)))
               => adds[i].id \in BlobIds(blobs)
        /\ \A x \in GroupIds(urlGroups) \ GroupIds(urlGroups') :
             FindSource(urlGroups, x).type = "file"
               => \E i \in DOMAIN removes :
                    /\ removes[i].id = x
                    /\ removes[i].pc = "deleted" \/ last' = "deleteFailed"
    ]_vars

\* C5 witness: a file descriptor has just left the list after its delete
\* committed; the record it was added after is gone too.
C5_Witness ==
  /\ last = "deleteDone"
  /\ nextId = 2
  /\ GroupIds(urlGroups) = {}
  /\ blobs = {}

\* C6: addUrlSource postcondition. For a valid URL u: below the capacity the
\* active group gets one descriptor more, placed last, with type url, url u,
\* title u and an id no descriptor, record or awaiting add has; every other
\* descriptor and group is as before. At the capacity nothing changes and the
\* error is reported.
C6_AddUrlPostcondition ==
  [][ \A u \in UrlInputs, ok \in BOOLEAN :
        (handleAddUrl(u, ok) /\ Trim(u) # "" /\ isValidUrl(u)) =>
          LET a == IF \E i \in DOMAIN urlGroups : urlGroups[i].id = activeUrlGroupId
                     THEN CHOOSE i \in DOMAIN urlGroups : urlGroups[i].id = activeUrlGroupId
                     ELSE 1
              was == urlGroups[a].sources
              now == urlGroups'[a].sources
          IN IF Len(was) < maxItems
               THEN /\ Len(now) = Len(was) + 1
                    /\ SubSeq(now, 1, Len(was)) = was
                    /\ now[Len(now)].type = "url"
                    /\ now[Len(now)].url = u
                    /\ now[Len(now)].title = u
                    /\ now[Len(now)].mimeType = NoValue
                    /\ now[Len(now)].id \notin
                         GroupIds(urlGroups) \cup GroupIds(Parse(meta)) \cup BlobIds(blobs)
                           \cup { adds[i].id : i \in DOMAIN adds }
                    /\ DOMAIN urlGroups' = DOMAIN urlGroups
                    /\ \A i \in DOMAIN urlGroups : i # a => urlGroups'[i] = urlGroups[i]
                    /\ urlGroups'[a].id = urlGroups[a].id
                    /\ blobs' = blobs
               ELSE /\ urlGroups' = urlGroups
                    /\ meta' = meta
                    /\ blobs' = blobs
                    /\ error' = "Maximum limit reached."
    ]_vars

\* C6 witness: the active group holds the maximum count of url descriptors,
\* each with title = url, and the add that followed was refused.
C6_Witness ==
  /\ last = "addUrl"
  /\ error = "Maximum limit reached."
  /\ LET src == ActiveSources(urlGroups, activeUrlGroupId) IN
       /\ Len(src) = maxItems
       /\ \A j \in DOMAIN src : src[j].type = "url" /\ src[j].title = src[j].url

\* C7: removeSource removes the descriptor whatever the outcome of the blob
\* deletion: after the step in which the delete of a removal succeeds, fails
\* with an error or fails to open, no descriptor with that id is in any group.
C7_RemovedWhateverTheDeleteOutcome ==
  [][ \A i \in 1..MaxOps :
        ( \/ \E ok \in BOOLEAN : DeleteResolve(i, ok)
          \/ \E o \in { "error", "hang" }, ok \in BOOLEAN : DeleteFail(i, o, ok) )
          => removes[i].id \notin GroupIds(urlGroups') ]_vars

C9_AddRemoveRoundTrip ==
  [][ \A i \in 1..MaxOps :
        /\ PutResolve(i, TRUE) =>
             /\ FindSource(urlGroups', adds[i].id) =
                  [id |-> adds[i].id, type |-> "file", title |-> adds[i].file.name,
                   url |-> NoValue, mimeType |-> adds[i].file.type]
             /\ \E b \in blobs' : b.id = adds[i].id /\ b.name = adds[i].file.name
        /\ DeleteResolve(i, TRUE) =>
             /\ removes[i].id \notin GroupIds(urlGroups')
             /\ removes[i].id \notin BlobIds(blobs')
             /\ roundTrip.on =>
                  /\ urlGroups' = roundTrip.groups
                  /\ blobs' = roundTrip.blobs
                  /\ meta' = roundTrip.meta
    ]_vars

\* C9 witness: the removal is about to complete a round trip, the record of
\* the added file already deleted.
C9_Witness ==
  /\ roundTrip.on
  /\ last = "deleteCommit"
  /\ roundTrip.id \in GroupIds(urlGroups)
  /\ roundTrip.id \notin BlobIds(blobs)

\* C10 as stated: after renameSource(id, t) with a non-blank t the title of
\* the descriptor is t.
C10_TitleIsInput ==
  [][ \A t \in TitleInputs, ok \in BOOLEAN :
        (saveEditing(t, ok) /\ Trim(t) # "")
          => FindSource(urlGroups', editingSourceId).title = t ]_vars

\* C10 amended: after renameSource(id, t) with a non-blank t the title of the
\* descriptor is t without its leading and trailing whitespace; its id, type,
\* url and mimeType, its place, every other descriptor and the Blob Store are
\* unchanged.
C10_RenameRoundTrip ==
  [][ \A t \in TitleInputs, ok \in BOOLEAN :
        (saveEditing(t, ok) /\ Trim(t) # "") =>
          /\ blobs' = blobs
          /\ DOMAIN urlGroups' = DOMAIN urlGroups
          /\ \A i \in DOMAIN urlGroups :
               /\ urlGroups'[i].id = urlGroups[i].id
               /\ DOMAIN urlGroups'[i].sources = DOMAIN urlGroups[i].sources
               /\ \A j \in DOMAIN urlGroups[i].sources :
                    LET was == urlGroups[i].sources[j]
                        now == urlGroups'[i].sources[j]
                    IN IF was.id = editingSourceId
                         THEN /\ now.title = Trim(t)
                              /\ now.id = was.id
                              /\ now.type = was.type
                              /\ now.url = was.url
                              /\ now.mimeType = was.mimeType
                         ELSE now = was
    ]_vars

\* C10 witness: a file descriptor has just been renamed; its record keeps
\* the name of the file.
C10_Witness ==
  /\ last = "saveEditing"
  /\ \E b \in blobs :
       /\ FindSource(urlGroups, b.id).type = "file"
       /\ FindSource(urlGroups, b.id).title = "Act"
       /\ b.name = "reg.pdf"

\* --------------------------------------------------------- reading a turn
\* the step in which handleSendMessage begins
TurnBegins == turn.pc = "idle" /\ turn'.pc # "idle"

\* the step in which the request is handed to the generation client
RequestHanded == turn.pc # "generating" /\ turn'.pc = "generating"

\* the step in which a lookup of the turn is answered or rejected
LookupEnds == turn'.pc # "idle" /\ Len(turn'.looked) = Len(turn.looked) + 1

\* the url descriptors' urls and the file descriptors of a list, in its order
UrlsOf(srcs) ==
  LET us == SelectSeq(srcs, LAMBDA x : x.type = "url") IN [ j \in DOMAIN us |-> us[j].url ]
FilesOf(srcs) == SelectSeq(srcs, LAMBDA x : x.type = "file")

\* one attachment for each file descriptor whose lookup found a record
RECURSIVE FoundAttachments(_, _)
FoundAttachments(fs, lk) ==
  IF fs = <<>> \/ lk = <<>> THEN <<>>
  ELSE (IF Head(lk).res = "ok" /\ Head(lk).dbFile # NoBlob
          THEN << [name |-> Head(fs).title, mimeType |-> Head(lk).dbFile.mimeType,
                   data |-> Head(lk).dbFile.data] >>
          ELSE <<>>)
       \o FoundAttachments(Tail(fs), Tail(lk))

C12_LookupsDegradeGracefully ==
  [][ \A o \in { "ok", "error", "hang" } :
        GetDone(o) =>
          /\ turn'.pc \in { "assembling", "generating" }
          /\ SubSeq(turn'.urls, 1, Len(turn.urls)) = turn.urls
          /\ SubSeq(turn'.filesToSend, 1, Len(turn.filesToSend)) = turn.filesToSend
          /\ Len(turn'.filesToSend) =
               Len(turn.filesToSend)
                 + (IF o = "ok" /\ turn.sources[turn.k].id \in BlobIds(blobs) THEN 1 ELSE 0)
    ]_vars

\* a string with no character other than spaces
IsBlank(t) == \A i \in 1..Len(t) : SubSeq(t, i, i) = " "

\* a string with no ':' has no scheme and is no absolute URL
HasNoScheme(u) == \A i \in 1..Len(u) : SubSeq(u, i, i) # ":"

\* the group list, both stores and the calls awaiting the Blob Store are untouched
NothingStored ==
  /\ urlGroups' = urlGroups
  /\ meta' = meta
  /\ blobs' = blobs
  /\ adds' = adds
  /\ removes' = removes

\* C13: validation errors change nothing. An add of an empty or invalid URL,
\* an add of a file that is no PDF, an add to a group that holds maxItems
\* descriptors, and a rename to an empty or blank title leave the group list,
\* the Metadata Store and the Blob Store as they are and start no Blob Store
\* operation; the rejected adds report an error.
C13_ValidationErrorsChangeNothing ==
  [][ LET atLimit == Len(ActiveSources(urlGroups, activeUrlGroupId)) >= maxItems IN
        /\ \A u \in UrlInputs, ok \in BOOLEAN :
             (handleAddUrl(u, ok) /\ (IsBlank(u) \/ HasNoScheme(u) \/ atLimit))
               => NothingStored /\ error' # NoValue
        /\ \A f \in Files :
             (handleFileSelect(f) /\ (f.type # "application/pdf" \/ atLimit))
               => NothingStored /\ error' # NoValue
        /\ \A t \in TitleInputs, ok \in BOOLEAN :
             (saveEditing(t, ok) /\ IsBlank(t)) => NothingStored
    ]_vars

\* C13 witness: a file that is no PDF has just been refused.
C13_Witness ==
  /\ last = "addFile"
  /\ error = "Only PDF files are currently supported for the library."
  /\ adds = <<>>
  /\ blobs = {}

\* C14: at most one descriptor per identifier. In every reachable state no two
\* descriptors of the whole group list, in one group or in two, share an id,
\* whatever the interleaving of the startup reconciliation with adds, removals
\* and renames; generated ids are fresh and the stored document has no
\* duplicate.
C14_AtMostOneDescriptorPerId ==
  /\ \A x \in 1..nextId : CountId(urlGroups, x) <= 1
  /\ meta # NoDoc => \A x \in 1..nextId : CountId(Parse(meta), x) <= 1

\* C14 witness: a file was added while startup was under way, its record was
\* stored before the Reconciler read the Blob Store, and the Reconciler has
\* committed.
C14_Witness ==
  /\ session = 1
  /\ ops = 1
  /\ last = "getAll"
  /\ initPc = "ready"
  /\ \E x \in BlobIds(blobs) : CountId(urlGroups, x) = 1

\* a step of addUrlSource, addFileSource, removeSource, renameSource or of the
\* reconciliation commit whose save succeeded
SavedMutation ==
  \/ \E u \in UrlInputs : handleAddUrl(u, TRUE)
  \/ \E i \in DOMAIN adds : PutResolve(i, TRUE)
  \/ \E x \in 1..nextId : handleRemoveSource(x, TRUE)
  \/ \E i \in DOMAIN removes : DeleteResolve(i, TRUE)
  \/ \E i \in DOMAIN removes, o \in { "error", "hang" } : DeleteFail(i, o, TRUE)
  \/ \E t \in TitleInputs : saveEditing(t, TRUE)
  \/ GetAllDone("ok", TRUE)

\* C15: metadata is re-persisted after every mutation. Whenever an add, a
\* removal, a rename or the reconciliation commit has changed the in-memory
\* group list and its save succeeded, the Metadata Store document is the
\* whole current list: it is the serialization of the list and reads back as
\* the list.
C15_SavedAfterEveryMutation ==
  [][ (SavedMutation /\ urlGroups' # urlGroups)
        => /\ meta' = Stringify(urlGroups')
           /\ Parse(meta') = urlGroups' ]_vars

\* C15 witness: the descriptor of a stored file has just been appended and
\* saved.
C15_Witness ==
  /\ last = "putDone"
  /\ track = "touched"
  /\ GroupIds(urlGroups) # {}
  /\ meta # NoDoc
  /\ Parse(meta) = urlGroups

\* a step of addUrlSource, addFileSource, removeSource or renameSource whose
\* save failed (setItem threw)
UnsavedMutation ==
  \/ \E u \in UrlInputs : handleAddUrl(u, FALSE)
  \/ \E i \in DOMAIN adds : PutResolve(i, FALSE)
  \/ \E x \in 1..nextId : handleRemoveSource(x, FALSE)
  \/ \E i \in DOMAIN removes : DeleteResolve(i, FALSE)
  \/ \E i \in DOMAIN removes, o \in { "error", "hang" } : DeleteFail(i, o, FALSE)
  \/ \E t \in TitleInputs : saveEditing(t, FALSE)

\* C16: failure of a store operation means the operation had no effect. When
\* the save that follows a mutation fails, the mutation is treated as not
\* having happened: if the in-memory group list agreed with the Metadata Store
\* document before the operation, it agrees with it afterwards, so the list
\* holds no change the document lacks.
C16_FailedSaveHasNoEffect ==
  [][ (UnsavedMutation /\ meta # NoDoc /\ Parse(meta) = urlGroups)
        => Parse(meta') = urlGroups' ]_vars

\* a step of handleSendMessage: its start, a lookup ending, the generation ending
TurnStep ==
  \/ \E q \in QueryInputs, a \in AttachmentInputs : handleSend(q, a)
  \/ \E o \in { "ok", "error", "hang" } : GetDone(o)
  \/ \E ok \in BOOLEAN : GenDone(ok)

\* the messages a step has changed
Changed == { j \in DOMAIN chatMessages : chatMessages'[j] # chatMessages[j] }

\* C17: a generation failure is contained. When the generation client fails
\* for a turn, the turn's pending placeholder, and no other message, becomes
\* the generic apology with isLoading false, no message is added, the loading
\* flag is cleared, the client was called once for the turn and is not called
\* again, and no step of the turn changes the group list, the Metadata Store
\* or the Blob Store.
C17_GenerationFailureContained ==
  [][ /\ GenDone(FALSE) =>
           /\ Len(chatMessages') = Len(chatMessages)
           /\ Cardinality(Changed) = 1
           /\ \A j \in Changed :
                /\ chatMessages[j].id = turn.placeholderMessageId
                /\ chatMessages[j].sender = "model"
                /\ chatMessages[j].isLoading
                /\ chatMessages'[j] = [chatMessages[j] EXCEPT !.text = ApologyText,
                                                              !.isLoading = FALSE]
           /\ \A j \in DOMAIN chatMessages' : ~chatMessages'[j].isLoading
           /\ isLoading' = FALSE
           /\ turn.calls = 1
           /\ turn'.pc = "idle"
      /\ TurnStep => /\ urlGroups' = urlGroups
                     /\ meta' = meta
                     /\ blobs' = blobs
                     /\ adds' = adds
                     /\ removes' = removes ]_vars

\* C17 witness: the generation client has just failed and the turn's
\* placeholder shows the apology.
C17_Witness ==
  /\ last = "generationFailed"
  /\ ~isLoading
  /\ turn = IdleTurn
  /\ Len(chatMessages) = 3
  /\ chatMessages[3].text = ApologyText
  /\ ~chatMessages[3].isLoading

\* C18: setActiveGroup is pure selection. For every group id the selection
\* leaves the group list, the Metadata Store document and the Blob Store
\* unchanged and starts no Blob Store operation; afterwards the descriptors a
\* context assembly or an add would use are those of the selected group.
C18_SetActiveGroupIsPureSelection ==
  [][ \A gid \in { urlGroups[i].id : i \in DOMAIN urlGroups } :
        setActiveUrlGroupId(gid) =>
          /\ urlGroups' = urlGroups
          /\ meta' = meta
          /\ blobs' = blobs
          /\ adds' = adds
          /\ removes' = removes
          /\ turn' = turn
          /\ activeUrlGroupId' = gid
          /\ \E i \in DOMAIN urlGroups :
               /\ urlGroups[i].id = gid
               /\ ActiveSources(urlGroups', activeUrlGroupId') = urlGroups[i].sources
    ]_vars

\* C18 witness: a group that holds a descriptor has just been selected.
C18_Witness ==
  /\ last = "setActive"
  /\ activeUrlGroupId = DefaultId
  /\ ActiveSources(urlGroups, activeUrlGroupId) # <<>>

\* C19: reconciliation runs before any user mutation. No add, removal or
\* rename takes effect on the group list before the Reconciler has committed:
\* while initializeData is under way the list is the initial one, and the
\* Reconciler's commit keeps every descriptor the list held, so it discards
\* no change made by a Library Manager operation.
C19_ReconciliationBeforeAnyMutation ==
  [][ /\ (initPc \in { "opening", "reading" } /\ initPc' = initPc)
          => urlGroups' = urlGroups
      /\ ReconcilerCommits => Entries(urlGroups) \subseteq Entries(urlGroups') ]_vars

\* C20: every Blob Store operation completes. Each call of put, getAll, get
\* and delete ends by succeeding or by failing with a reported failure, for
\* every failure mode of the store, so its caller is resumed: no call ends in
\* the state in which its promise never settles.
C20_EveryBlobStoreCallSettles ==
  /\ last \notin { "putHung", "deleteHung", "getHung" }
  /\ initPc # "hung"
  /\ turn.pc # "hung"

\* the step in which initializeData ends without the Blob Store: initDB or
\* getAllFilesFromDB has failed
StartupWithoutBlobStore ==
  /\ initPc \in { "opening", "reading" }
  /\ initPc' \in { "failed", "hung" }

\* C21: Blob Store unavailability at startup is non-fatal to the metadata. If
\* the Blob Store fails to open or getAll fails during startup, and no
\* Library Manager operation has run meanwhile, the groups the previous
\* session left in the Metadata Store are the in-memory group list; only the
\* orphan repair is skipped.
C21_MetadataLoadedWithoutBlobStore ==
  [][ (StartupWithoutBlobStore /\ track # "touched" /\ prevMeta # NoDoc)
        => urlGroups' = Parse(prevMeta) ]_vars

\* C22: context assembly precedes the request. In every turn the generation
\* client is called only when the loop over the turn's sources is over and
\* the lookup of each of its file descriptors has ended (found, absent or
\* failed); it is called once, not again while the turn goes on, and the
\* payload it has been given is not changed afterwards.
C22_AssemblyPrecedesRequest ==
  [][ /\ RequestHanded =>
           /\ turn'.k = Len(turn'.sources) + 1
           /\ Len(turn'.looked) = Len(FilesOf(turn'.sources))
           /\ \A j \in DOMAIN turn'.looked : turn'.looked[j].res \in { "ok", "error" }
           /\ turn.calls = 0
           /\ turn'.calls = 1
      /\ turn'.pc \in { "assembling", "hung" } => turn'.calls = 0
      /\ (turn.pc = "generating" /\ turn'.pc # "idle") =>
           /\ turn'.calls = 1
           /\ turn'.urls = turn.urls
           /\ turn'.filesToSend = turn.filesToSend ]_vars

\* C22 witness: the one lookup of the turn has failed and the request has then
\* been issued, with the user's attachment alone.
C22_Witness ==
  /\ turn.pc = "generating"
  /\ turn.calls = 1
  /\ Len(turn.looked) = 1
  /\ turn.looked[1].res = "error"
  /\ turn.filesToSend = << Memo >>

\* the shape of a descriptor: the five fields of ReferenceSource and no
\* other, url exactly for a url, mimeType exactly for a file
WellShaped(s) ==
  /\ DOMAIN s = DescriptorFields
  /\ s.type \in { "url", "file" }
  /\ (s.url # NoValue) <=> (s.type = "url")
  /\ (s.mimeType # NoValue) <=> (s.type = "file")

\* C23: descriptor shape invariant. In every reachable state every descriptor
\* of the group list, made by an add or by the Reconciler and renamed any
\* number of times, has url present exactly when its type is url and mimeType
\* present exactly when its type is file, and has no payload field; the same
\* holds of the descriptors read back from the stored document.
C23_DescriptorShape ==
  /\ \A e \in Entries(urlGroups) : WellShaped(e[2])
  /\ meta # NoDoc => \A e \in Entries(Parse(meta)) : WellShaped(e[2])

\* C23 witness: a file descriptor has been added and its rename has just
\* been saved.
C23_Witness ==
  /\ last = "saveEditing"
  /\ \E e \in Entries(urlGroups) :
       /\ e[2].type = "file"
       /\ e[2].title = "Act"
       /\ e[2].mimeType = PdfType

\* a step in which an add appends its descriptor: a url add, or a file add
\* resuming after its blob write
AddStep ==
  \/ \E u \in UrlInputs, ok \in BOOLEAN : handleAddUrl(u, ok)
  \/ \E i \in DOMAIN adds, ok \in BOOLEAN : PutResolve(i, ok)

\* no group holds more descriptors than the maximum item count
WithinCapacity(gs) == \A i \in DOMAIN gs : Len(gs[i].sources) <= maxItems

\* C24: capacity holds under overlapping adds. With file adds allowed to
\* overlap each other and url adds, an add that finds every group at or below
\* the maximum item count leaves every group at or below it.
C24_CapacityUnderOverlappingAdds ==
  [][ (AddStep /\ WithinCapacity(urlGroups)) => WithinCapacity(urlGroups') ]_vars

\* C25: a removed source stays removed. Once removeSource(x) has ended for a
\* file descriptor x, no descriptor with id x is in the group list again, in
\* this session or after a later startup reconciliation, whatever the outcome
\* of the blob deletion was.
C25_RemovedStaysRemoved ==
  \A x \in removed : x \notin GroupIds(urlGroups)

\* Every promise the runtime is going to settle is settled: a lookup under way
\* ends (with one of its three ends) and a generation call under way returns
\* or throws. The user is under no obligation to act.
LiveSpec ==
  /\ Spec
  /\ WF_vars(\E o \in { "ok", "error", "hang" } : GetDone(o))
  /\ WF_vars(\E ok \in BOOLEAN : GenDone(ok))

\* C26: at most one chat turn is in flight and the loading flag tracks it.
\* isLoading is true exactly while a turn begun by handleSendMessage has not
\* resolved its placeholder, no turn begins while one is pending, and every
\* turn begun eventually ends with isLoading false and no message loading.
C26_OneTurnInFlight ==
  /\ [](isLoading <=> turn.pc # "idle")
  /\ [][TurnBegins => (~isLoading /\ turn = IdleTurn)]_vars
  /\ (turn.pc # "idle") ~>
       (~isLoading /\ \A j \in DOMAIN chatMessages : ~chatMessages[j].isLoading)
====
